---- MODULE Spec2Model ----
(***************************************************************************)
(* Model of goc.py (synteruptor): pairwise Gene Order Conservation.        *)
(*                                                                         *)
(* The script reads the tables genes and orthos of an sqlite database,     *)
(* and for every ordered pair of distinct species slides a window over     *)
(* the reference's CDS list, scoring each window against the target's CDS  *)
(* order, and inserts one row (sp1, sp2, pos, score) per window in the     *)
(* table goc, committing once per pair.                                    *)
(*                                                                         *)
(* Indices are kept 0-based as in the Python source; a TLA+ sequence s is  *)
(* read at python index i as s[i + 1].  A score is kept as the pair        *)
(* <<numerator, denominator>> of the division of line 128.                 *)
(***************************************************************************)
EXTENDS Integers, Sequences, FiniteSets, TLC

VARIABLES
    genes,                      \* table genes: species -> ordered rows [pid, feat]
    orthos,                     \* table orthos: set of <<pid1, pid2>>
    list_species,               \* line 31
    goc,                        \* table goc as committed on disk
    pending,                    \* rows inserted in the open transaction
    pc,                         \* position of the script
    ref_i, tar_i,               \* positions of the two for loops (1-based)
    c,                          \* line 33/40
    scored,                     \* the pairs reported at line 40-42, in order
    list_cds_ref, list_gene_ref, list_cds_tar,
    list_tar_ort,               \* line 97
    window_length,              \* line 94
    loc_start_window,           \* line 95/132
    start_window,               \* line 96/131
    window,                     \* line 99
    index_ref,                  \* position of the for loop of line 104 (0-based)
    new_synt_region,            \* line 102
    number_cds_in_synt_region   \* line 103

vars == <<genes, orthos, list_species, goc, pending, pc, ref_i, tar_i, c, scored,
          list_cds_ref, list_gene_ref, list_cds_tar, list_tar_ort, window_length,
          loc_start_window, start_window, window, index_ref, new_synt_region,
          number_cds_in_synt_region>>

----------------------------------------------------------------------------
(* Bounds of the explored databases *)

NumSpecies == 2
PrefLen == 3
LargeN == 101

SmallSizes == {0, 2, 3, 4, 5}
LongSizes == {10, LargeN}
Tokens == {<<"NA", 0>>, <<"X", 0>>, <<"T", 0>>, <<"T", 1>>, <<"T", 2>>}
Bases == {"none", "id", "rev", "gap", "dup"}

(* Program constants *)

window_proportion == 3
WindowDivisor == 100
\* the sentinel "NA" of line 97, written as a pid no gene carries
NA == <<0, 0>>

----------------------------------------------------------------------------
(* Sequence helpers (python list semantics) *)

Range(s) == {s[i] : i \in 1..Len(s)}

Min(a, b) == IF a < b THEN a ELSE b

\* s[a:b] for 0 <= a
Slice(s, a, b) ==
    LET hi == Min(b, Len(s))
    IN  IF hi <= a THEN <<>> ELSE [i \in 1..(hi - a) |-> s[a + i]]

\* s.index(x): 0-based index of the first occurrence, -1 standing for ValueError
IndexOf(s, x) ==
    IF x \in Range(s)
    THEN (CHOOSE i \in 1..Len(s) : s[i] = x /\ \A j \in 1..(i - 1) : s[j] # x) - 1
    ELSE -1

\* math.ceil(a / b) for naturals a, b > 0
CeilDiv(a, b) == (a + b - 1) \div b

----------------------------------------------------------------------------
(* The database: tables genes and orthos *)

Species == 1..NumSpecies

\* The rows of genes of species s with n CDS, in the order of (gp.min, loc_start):
\* a leading rRNA gene, then the CDS; an odd species carries a tRNA gene after
\* every second CDS.  pid <<s, k>> is the k-th gene of species s.
GenomeOf(s, n) ==
    LET odd == s % 2 = 1
        len == 1 + n + (IF odd THEN n \div 2 ELSE 0)
    IN  [k \in 1..len |->
            [pid |-> <<s, k>>,
             feat |-> IF k = 1 THEN "rRNA"
                      ELSE IF odd /\ (k - 1) % 3 = 0 THEN "tRNA"
                      ELSE "CDS"]]

\* SELECT g.pid ... WHERE feat = 'CDS' and g.sp = ? ORDER BY gp.min, loc_start
CdsOf(g, sp) ==
    LET rows == SelectSeq(g[sp], LAMBDA r : r.feat = "CDS")
    IN  [i \in 1..Len(rows) |-> rows[i].pid]

\* SELECT g.pid ... WHERE g.sp = ? ORDER BY gp.min, loc_start
GenesOf(g, sp) == [i \in 1..Len(g[sp]) |-> g[sp][i].pid]

\* The ortholog of the i-th (0-based) CDS of a in b that a pattern db describes.
\* The first Len(db.prefix) CDS take the tokens of the prefix: <<"T", j>> stands
\* for the j-th CDS of b (0-based), <<"X", 0>> for the first tRNA gene of b when
\* b has one, <<"NA", 0>> for no ortholog.  The other CDS follow the base
\* arrangement: "id" the CDS of the same rank, "rev" the CDS of the same rank
\* from the end, "gap" as "id" but for one CDS in three that has no ortholog,
\* "none" no ortholog, "dup" as "id" but for the CDS of rank PrefLen of species 1
\* that has a second ortholog in species 2, its first CDS; the first db.inv
\* CDS are taken in inverted order.
PatternTarget(g, db, a, b, i) ==
    LET T == CdsOf(g, b)
        m == Len(T)
        j == IF i < db.inv THEN db.inv - 1 - i ELSE i
        tok == IF i < Len(db.prefix) THEN db.prefix[i + 1]
               ELSE IF db.base \in {"id", "dup"} THEN <<"T", j>>
               ELSE IF db.base = "rev" THEN <<"T", m - 1 - j>>
               ELSE IF db.base = "gap" /\ j % 3 # 1 THEN <<"T", j>>
               ELSE <<"NA", 0>>
    IN  IF tok[1] = "NA" THEN {}
        ELSE IF tok[1] = "X"
             THEN LET trna == {q \in Range(g[b]) : q.feat = "tRNA"}
                  IN  {q.pid : q \in {t \in trna : \A u \in trna : t.pid[2] <= u.pid[2]}}
        ELSE IF tok[2] >= 0 /\ tok[2] < m
             THEN IF db.base = "dup" /\ a = 1 /\ b = 2 /\ i = PrefLen
                  THEN {T[tok[2] + 1], T[1]}
                  ELSE {T[tok[2] + 1]}
        ELSE {}

OrthosOf(g, db) ==
    UNION { UNION { { <<CdsOf(g, a)[i + 1], t>> : t \in PatternTarget(g, db, a, b, i) }
                    : i \in 0..(Len(CdsOf(g, a)) - 1) }
            : <<a, b>> \in {p \in Species \X Species : p[1] # p[2]} }

\* The databases explored: the small genomes with every pattern of tokens on
\* their first CDS; the genome of the worked example and a genome whose
\* windows are two proportions long, with every base arrangement and every
\* inversion of a leading segment.
Databases ==
    { [n |-> n, prefix |-> prefix, base |-> base, inv |-> 0] :
        n \in SmallSizes, prefix \in [1..PrefLen -> Tokens], base \in Bases }
    \cup
    { [n |-> n, prefix |-> <<>>, base |-> base, inv |-> inv] :
        n \in LongSizes, base \in Bases, inv \in 0..PrefLen }

\* SELECT DISTINCT sp FROM genes: the species in the order of their rows
SpeciesList == [i \in 1..NumSpecies |-> i]

----------------------------------------------------------------------------
(* The ortholog index of a pair (lines 77-88, 97) *)

\* The rows of the query of line 79-83: o.pid1 is a reference CDS, g1 exists,
\* g2 exists and is a gene of the target, of any feat
OrthoRows(g, o, cds_ref, tar) ==
    { r \in o : /\ r[1] \in Range(cds_ref)
                /\ \E sp \in DOMAIN g : r[1] \in Range(GenesOf(g, sp))
                /\ r[2] \in Range(GenesOf(g, tar)) }

\* The dicts the loop of lines 87-88 can leave: ort[pid1] is the pid2 of the last
\* fetched row of pid1, and the engine picks the order of the rows
OrtDicts(rows) ==
    LET dom == {r[1] : r \in rows}
        cand(x) == {r[2] : r \in {q \in rows : q[1] = x}}
        many == {x \in dom : Cardinality(cand(x)) > 1}
    IN  { [x \in dom |-> IF x \in many THEN f[x] ELSE CHOOSE t \in cand(x) : TRUE] :
            f \in {h \in [many -> UNION {cand(x) : x \in many}] :
                        \A x \in many : h[x] \in cand(x)} }

\* line 97
ListTarOrt(ort, cds_ref) ==
    [i \in 1..Len(cds_ref) |-> IF cds_ref[i] \in DOMAIN ort THEN ort[cds_ref[i]] ELSE NA]

----------------------------------------------------------------------------
(* The scan of one pair (lines 93-132) *)

\* line 94
WindowLength(limit) == CeilDiv(limit, WindowDivisor) * window_proportion

\* line 95
CenterStart(wl) == CeilDiv(wl, 2)

\* Faulty variant: the loop also takes the window that ends on the last CDS
LoopCondInclusive(start, limit, wl) == start <= (limit - wl)

\* line 98
LoopCond(start, limit, wl) == start < (limit - wl)

\* lines 109-110, for index_tar >= 0
ForwardTest(T, w, ir, it) ==
    it # (Len(T) - 1) /\ T[it + 2] = w[ir + 2]

\* line 117
BackwardTried(ir, it) == ir > 0 /\ it # 0

\* line 118
BackwardTest(T, w, ir, it) == T[it] = w[ir + 2]

\* Faulty variant: the anchor is counted at every syntenic position
CountedAnchorEach(count, flag) == count + 2

\* Faulty variant: the anchor of a new run is never counted
CountedNoAnchor(count, flag) == count + 1

\* lines 112-115 and 119-122: the position, and the anchor of a new run
Counted(count, flag) == count + 1 + (IF flag THEN 1 ELSE 0)

\* Faulty variant: the count of a window starts with the anchor
FreshCountAnchored == 0 + 1

\* line 103
FreshCount == 0

\* line 107 raises ValueError at position ir of window w
Raises(T, w, ir) ==
    /\ w[ir + 1] # NA
    /\ ir < Len(w) - 1
    /\ IndexOf(T, w[ir + 1]) = -1

\* One turn of the loop of line 104 that does not raise: the count and the flag
\* after position ir
PositionStep(T, w, ir, count, flag) ==
    LET cds_tar == w[ir + 1]
        limit_computation == Len(w) - 1
        index_tar == IndexOf(T, cds_tar)
        same == [count |-> count, flag |-> flag]
    IN  IF cds_tar # NA
        THEN IF ir < limit_computation
             THEN IF ForwardTest(T, w, ir, index_tar)
                  THEN [count |-> Counted(count, flag), flag |-> FALSE]
                  ELSE IF BackwardTried(ir, index_tar)
                       THEN IF BackwardTest(T, w, ir, index_tar)
                            THEN [count |-> Counted(count, flag), flag |-> FALSE]
                            ELSE [count |-> count, flag |-> TRUE]
                       ELSE same
             ELSE same
        ELSE [count |-> count, flag |-> TRUE]

\* lines 102-127 on a whole window: number_cds_in_synt_region at line 128, or -1
\* when a position raises
RECURSIVE ScoreFrom(_, _, _, _, _)
ScoreFrom(T, w, ir, count, flag) ==
    IF ir >= Len(w) THEN count
    ELSE IF Raises(T, w, ir) THEN -1
    ELSE LET r == PositionStep(T, w, ir, count, flag)
         IN  ScoreFrom(T, w, ir + 1, r.count, r.flag)

ScoreWindow(T, w) == ScoreFrom(T, w, 0, FreshCount, TRUE)

\* line 130 raises: IndexError of list_cds_ref[loc], ValueError of .index
LocRaises(cds_ref, gene_ref, loc) ==
    \/ loc >= Len(cds_ref)
    \/ IndexOf(gene_ref, cds_ref[loc + 1]) = -1

\* Faulty variant: line 129, the assignment the source keeps as a comment
GocLocOffset(cds_ref, gene_ref, loc) == loc

\* line 130
GocLoc(cds_ref, gene_ref, loc) == IndexOf(gene_ref, cds_ref[loc + 1])

\* conn.commit() of line 138: the open transaction reaches the table
Commit(table, rows) == table \o rows

\* Faulty variant: the rows inserted before the exception are kept
RollbackKeeps(table, rows) == table \o rows

\* The script dies on an uncaught exception: the open transaction is rolled back
Rollback(table, rows) == table

----------------------------------------------------------------------------
(* The script *)

ref == list_species[ref_i]

tar == list_species[tar_i]

\* lines 26-33: the table goc is dropped and created empty, the species are read
Init ==
    /\ \E db \in Databases :
         /\ genes = [s \in Species |-> GenomeOf(s, db.n)]
         /\ orthos = OrthosOf([s \in Species |-> GenomeOf(s, db.n)], db)
    /\ list_species = SpeciesList
    /\ goc = <<>>
    /\ pending = <<>>
    /\ pc = "loop"
    /\ ref_i = 1
    /\ tar_i = 1
    /\ c = 0
    /\ scored = <<>>
    /\ list_cds_ref = <<>>
    /\ list_gene_ref = <<>>
    /\ list_cds_tar = <<>>
    /\ list_tar_ort = <<>>
    /\ window_length = 0
    /\ loc_start_window = 0
    /\ start_window = 0
    /\ window = <<>>
    /\ index_ref = 0
    /\ new_synt_region = TRUE
    /\ number_cds_in_synt_region = 0

scanVars == <<list_cds_ref, list_gene_ref, list_cds_tar, list_tar_ort, window_length,
              loc_start_window, start_window>>

windowVars == <<window, index_ref, new_synt_region, number_cds_in_synt_region>>

dbVars == <<genes, orthos, list_species>>

\* Faulty variant: the inner loop starts after the reference: unordered pairs only
NextTurnUnordered ==
    IF tar_i < Len(list_species)
    THEN /\ tar_i' = tar_i + 1
         /\ ref_i' = ref_i
    ELSE /\ tar_i' = Min(ref_i + 1, Len(list_species))
         /\ ref_i' = ref_i + 1

\* lines 36-37: the next turn of the inner loop, of the outer loop when it ends
NextTurn ==
    IF tar_i < Len(list_species)
    THEN /\ tar_i' = tar_i + 1
         /\ ref_i' = ref_i
    ELSE /\ tar_i' = 1
         /\ ref_i' = ref_i + 1

\* lines 38-39
SkipSame ==
    /\ pc = "loop"
    /\ ref_i <= Len(list_species)
    /\ ref = tar
    /\ NextTurn
    /\ UNCHANGED <<dbVars, goc, pending, pc, c, scored, scanVars, windowVars>>

\* lines 40-97
LoadPair ==
    /\ pc = "loop"
    /\ ref_i <= Len(list_species)
    /\ ref # tar
    /\ c' = c + 1
    /\ scored' = Append(scored, <<ref, tar>>)
    /\ list_cds_ref' = CdsOf(genes, ref)
    /\ list_gene_ref' = GenesOf(genes, ref)
    /\ list_cds_tar' = CdsOf(genes, tar)
    /\ \E ort \in OrtDicts(OrthoRows(genes, orthos, CdsOf(genes, ref), tar)) :
         list_tar_ort' = ListTarOrt(ort, CdsOf(genes, ref))
    /\ window_length' = WindowLength(Len(CdsOf(genes, ref)))
    /\ loc_start_window' = CenterStart(WindowLength(Len(CdsOf(genes, ref))))
    /\ start_window' = 0
    /\ pc' = "while"
    /\ UNCHANGED <<dbVars, goc, pending, ref_i, tar_i, windowVars>>

\* lines 98-103: the loop goes on
EnterWindow ==
    /\ pc = "while"
    /\ LoopCond(start_window, Len(list_cds_ref), window_length)
    /\ window' = Slice(list_tar_ort, start_window, start_window + window_length)
    /\ new_synt_region' = TRUE
    /\ number_cds_in_synt_region' = FreshCount
    /\ index_ref' = 0
    /\ pc' = "for"
    /\ UNCHANGED <<dbVars, goc, pending, ref_i, tar_i, c, scored, scanVars>>

\* lines 104-127: one position of the window
ScorePosition ==
    /\ pc = "for"
    /\ index_ref < Len(window)
    /\ ~Raises(list_cds_tar, window, index_ref)
    /\ LET r == PositionStep(list_cds_tar, window, index_ref,
                             number_cds_in_synt_region, new_synt_region)
       IN  /\ number_cds_in_synt_region' = r.count
           /\ new_synt_region' = r.flag
    /\ index_ref' = index_ref + 1
    /\ UNCHANGED <<dbVars, goc, pending, pc, ref_i, tar_i, c, scored, scanVars, window>>

\* line 107 raises ValueError: the script ends, nothing of the pair is committed
RaiseInWindow ==
    /\ pc = "for"
    /\ index_ref < Len(window)
    /\ Raises(list_cds_tar, window, index_ref)
    /\ pc' = "failed"
    /\ goc' = Rollback(goc, pending)
    /\ pending' = <<>>
    /\ UNCHANGED <<dbVars, ref_i, tar_i, c, scored, scanVars, windowVars>>

\* lines 128-136: the row of the window
EmitRow ==
    /\ pc = "for"
    /\ index_ref = Len(window)
    /\ IF Len(window) = 0 \/ LocRaises(list_cds_ref, list_gene_ref, loc_start_window)
       THEN /\ pc' = "failed"
            /\ goc' = Rollback(goc, pending)
            /\ pending' = <<>>
            /\ UNCHANGED <<start_window, loc_start_window>>
       ELSE /\ pending' = Append(pending,
                            [sp1 |-> ref, sp2 |-> tar,
                             pos |-> GocLoc(list_cds_ref, list_gene_ref, loc_start_window),
                             score |-> <<number_cds_in_synt_region, Len(window)>>])
            /\ start_window' = start_window + 1
            /\ loc_start_window' = loc_start_window + 1
            /\ pc' = "while"
            /\ goc' = goc
    /\ UNCHANGED <<dbVars, ref_i, tar_i, c, scored, list_cds_ref, list_gene_ref,
                   list_cds_tar, list_tar_ort, window_length, windowVars>>

\* lines 98, 138: the loop ends, the rows of the pair are committed
CommitPair ==
    /\ pc = "while"
    /\ ~LoopCond(start_window, Len(list_cds_ref), window_length)
    /\ goc' = Commit(goc, pending)
    /\ pending' = <<>>
    /\ NextTurn
    /\ pc' = "loop"
    /\ UNCHANGED <<dbVars, c, scored, scanVars, windowVars>>

\* lines 140-144
Finish ==
    /\ pc = "loop"
    /\ ref_i > Len(list_species)
    /\ pc' = "done"
    /\ UNCHANGED <<dbVars, goc, pending, ref_i, tar_i, c, scored, scanVars, windowVars>>

Next ==
    \/ SkipSame
    \/ LoadPair
    \/ EnterWindow
    \/ ScorePosition
    \/ RaiseInWindow
    \/ EmitRow
    \/ CommitPair
    \/ Finish

Spec == Init /\ [][Next]_vars

----------------------------------------------------------------------------
(* Vocabulary of the properties *)

Max(a, b) == IF a > b THEN a ELSE b

Reverse(s) == [i \in 1..Len(s) |-> s[Len(s) + 1 - i]]

PairOf(r) == <<r.sp1, r.sp2>>

RowsOf(table, p) == SelectSeq(table, LAMBDA r : PairOf(r) = p)

Scanning == pc \in {"while", "for"}

\* The pairs whose scan has ended and whose rows are committed
Completed ==
    IF pc \in {"loop", "done"} THEN Range(scored)
    ELSE {scored[i] : i \in 1..(Len(scored) - 1)}

\* windowLength = ceil(n / 100) * 3, as the specification states it
StatedWindowLength(n) == ((n + 99) \div 100) * 3

StatedRecords(n) == Max(0, n - StatedWindowLength(n))

NumCds(sp) == Len(CdsOf(genes, sp))

\* No CDS of the reference has an ortholog in the target: line 97 gave the
\* sentinel everywhere
NoOrtholog == \A i \in 1..Len(list_tar_ort) : list_tar_ort[i] = NA

\* Every reference CDS has an ortholog and the target's CDS list is the list of
\* these orthologs, in the same order
Identical ==
    /\ Len(list_cds_ref) = Len(list_cds_tar)
    /\ list_tar_ort = list_cds_tar

\* The same one-to-one orthologs, the target's CDS being in the reverse order
Reversed ==
    /\ Len(list_cds_ref) = Len(list_cds_tar)
    /\ list_tar_ort = Reverse(list_cds_tar)

\* The last pair that was loaded
LastScored == scored[Len(scored)]

AllOrderedPairs ==
    {p \in Range(list_species) \X Range(list_species) : p[1] # p[2]}

\* The rank of a pair in the order of scoring
RankOf(p) == CHOOSE i \in 1..Len(scored) : scored[i] = p

----------------------------------------------------------------------------
(* C1: a pair's scan emits exactly max(0, n - windowLength) records, one for
   each offset 0 .. n - windowLength - 1: while a pair is scanned the rows
   inserted so far are one per offset already passed and no offset passes
   n - windowLength, and every pair whose scan has ended has exactly
   max(0, n - windowLength) rows in the table (none when windowLength >= n). *)
C1_RecordCount ==
    /\ Scanning =>
         /\ Len(pending) = start_window
         /\ start_window <= StatedRecords(NumCds(ref))
         /\ window_length = StatedWindowLength(NumCds(ref))
    /\ \A p \in Completed : Len(RowsOf(goc, p)) = StatedRecords(NumCds(p[1]))

C1_Witness ==
    /\ pc = "done"
    /\ \E p \in Range(scored) : NumCds(p[1]) = 5 /\ Len(RowsOf(goc, p)) = 2

(* C2: every emitted score lies in [0,1]: the syntenic count of a window is
   never negative and never exceeds the window length, at any position of the
   window and in every row inserted or committed. *)
C2_ScoreInUnitInterval ==
    /\ pc = "for" =>
         /\ number_cds_in_synt_region >= 0
         /\ number_cds_in_synt_region <= Len(window)
    /\ \A i \in 1..Len(goc) :
         goc[i].score[1] >= 0 /\ goc[i].score[1] <= goc[i].score[2] /\ goc[i].score[2] > 0
    /\ \A i \in 1..Len(pending) :
         /\ pending[i].score[1] >= 0
         /\ pending[i].score[1] <= pending[i].score[2]
         /\ pending[i].score[2] > 0

C2_Witness ==
    /\ pc = "while"
    /\ \E i \in 1..Len(pending) : pending[i].score[1] = pending[i].score[2]
    /\ \E i \in 1..Len(pending) :
         pending[i].score[1] > 0 /\ pending[i].score[1] < pending[i].score[2]
    /\ NA \in Range(list_tar_ort)

(* C3: within one pair's rows the positions are strictly increasing in
   emission order; the k-th row's position is the index in the reference's
   full gene list of the CDS at index ceil(windowLength/2) + k of the CDS
   list, and that index is within the CDS list whenever a row is emitted. *)
C3_PositionsIncreasing ==
    /\ \A i \in 1..(Len(pending) - 1) : pending[i].pos < pending[i + 1].pos
    /\ \A i \in 1..(Len(goc) - 1) :
         PairOf(goc[i]) = PairOf(goc[i + 1]) => goc[i].pos < goc[i + 1].pos
    /\ pc = "for" =>
         /\ loc_start_window = (StatedWindowLength(NumCds(ref)) + 1) \div 2 + start_window
         /\ loc_start_window < Len(list_cds_ref)
    /\ Scanning =>
         LET first == (StatedWindowLength(NumCds(ref)) + 1) \div 2
         IN  \A k \in 1..Len(pending) :
                list_gene_ref[pending[k].pos + 1] = list_cds_ref[first + k]

C3_Witness ==
    /\ pc = "while"
    /\ \E i \in 1..(Len(pending) - 1) : pending[i + 1].pos > pending[i].pos + 1

(* C6: if no CDS of the reference has an ortholog in the target, every score
   of the pair is 0. *)
C6_NoOrthologZero ==
    /\ (pc = "for" /\ NoOrtholog) => number_cds_in_synt_region = 0
    /\ (Scanning /\ NoOrtholog) => \A i \in 1..Len(pending) : pending[i].score[1] = 0
    /\ orthos = {} => \A i \in 1..Len(goc) : goc[i].score[1] = 0

C6_Witness ==
    /\ pc = "while"
    /\ NoOrtholog
    /\ Len(pending) = 7
    /\ \A i \in 1..Len(pending) : pending[i].score = <<0, 3>>

(* C4 (as stated): with identical reference and target CDS lists, every score
   is (windowLength - 1) / windowLength. *)
C4_AsStated ==
    (Scanning /\ Identical) =>
        \A i \in 1..Len(pending) :
            pending[i].score = <<StatedWindowLength(Len(list_cds_ref)) - 1,
                                 StatedWindowLength(Len(list_cds_ref))>>

(* C4 (amended): with identical reference and target CDS lists, every score is
   windowLength / windowLength = 1, and the pair gets max(0, n - windowLength)
   rows: with n = 10, 7 rows of score 3/3. *)
C4_IdenticalScoresOne ==
    LET n == Len(list_cds_ref)
        wl == StatedWindowLength(n)
    IN  /\ (Scanning /\ Identical) =>
             \A i \in 1..Len(pending) : pending[i].score = <<wl, wl>>
        /\ (pc \in {"loop", "done"} /\ scored # <<>> /\ Identical) =>
             LET rows == RowsOf(goc, LastScored)
             IN  /\ Len(rows) = Max(0, n - wl)
                 /\ \A i \in 1..Len(rows) : rows[i].score = <<wl, wl>>

C4_Witness ==
    /\ pc = "done"
    /\ Identical
    /\ Len(list_cds_ref) = 10
    /\ Len(RowsOf(goc, LastScored)) = 7
    /\ \A i \in 1..Len(goc) : goc[i].score = <<3, 3>>

(* C5: when the target's CDS order is the exact reverse of the reference's,
   every window gets the score the same window gets when the target's order
   is identical to the reference's. *)
C5_ReversedSameScore ==
    (Scanning /\ Reversed) =>
        \A k \in 1..Len(pending) :
            pending[k].score[1] =
                ScoreWindow(list_tar_ort,
                            Slice(list_tar_ort, k - 1, k - 1 + window_length))

(* C7: each ordered pair of distinct species is scored exactly once and no
   pair with reference = target is; the rows of a pair reach the table in one
   batch after its scan has ended and before any row of the next pair is
   written, so the table keeps the pairs apart, in the order of scoring, each
   pair's rows in increasing order. *)
C7_PairsOnceInBatches ==
    /\ \A i \in 1..Len(scored) : scored[i][1] # scored[i][2]
    /\ \A i, j \in 1..Len(scored) : i # j => scored[i] # scored[j]
    /\ pc = "done" => Range(scored) = AllOrderedPairs
    /\ c = Len(scored)
    /\ pending # <<>> => Scanning
    /\ \A i \in 1..Len(pending) : PairOf(pending[i]) = LastScored
    /\ Scanning => \A i \in 1..Len(goc) : PairOf(goc[i]) # LastScored
    /\ \A i \in 1..Len(goc) : PairOf(goc[i]) \in Completed
    /\ \A i \in 1..(Len(goc) - 1) :
         /\ RankOf(PairOf(goc[i])) <= RankOf(PairOf(goc[i + 1]))
         /\ PairOf(goc[i]) = PairOf(goc[i + 1]) => goc[i].pos < goc[i + 1].pos

C7_Witness ==
    /\ pc = "done"
    /\ Range(scored) = AllOrderedPairs
    /\ \E i, j \in 1..Len(goc) : PairOf(goc[i]) # PairOf(goc[j])

(* C8: when scoring fails during a pair, the committed rows of the pairs
   completed before stay in the table unchanged and no row of the failing
   pair is committed. *)
C8_FailureKeepsCommitted ==
    [][pc' = "failed" =>
          /\ goc' = goc
          /\ pending' = <<>>
          /\ \A i \in 1..Len(goc') : PairOf(goc'[i]) # LastScored]_vars

C8_Witness ==
    /\ pc = "failed"
    /\ Len(goc) > 0
    /\ start_window > 0

(* C9: at a position of the window that is not the last and whose value is
   not the sentinel, when neither the forward nor the backward test matches
   (the backward test not being tried included), the position is not counted
   and the new-run flag is set. *)
C9_BrokenRunMarked ==
    [][(/\ pc = "for"
        /\ index_ref' = index_ref + 1
        /\ index_ref < Len(window) - 1
        /\ window[index_ref + 1] # NA
        /\ LET index_tar == IndexOf(list_cds_tar, window[index_ref + 1])
           IN  /\ ~ForwardTest(list_cds_tar, window, index_ref, index_tar)
               /\ ~(/\ BackwardTried(index_ref, index_tar)
                    /\ BackwardTest(list_cds_tar, window, index_ref, index_tar)))
       => /\ number_cds_in_synt_region' = number_cds_in_synt_region
          /\ new_synt_region' = TRUE]_vars

(* C10: the ortholog index maps every reference CDS to the sentinel or to a
   gene of the target's CDS list, so that line 107 never raises. *)
C10_IndexWithinTarget ==
    /\ pc # "failed"
    /\ pc \in {"while", "for"} =>
         LET T == Range(list_cds_tar)
         IN  \A i \in 1..Len(list_tar_ort) :
                list_tar_ort[i] = NA \/ list_tar_ort[i] \in T

====
